---------------------------- MODULE Spec2Model ----------------------------
(***************************************************************************)
(* A model of exchangelib's transport/auth negotiation (transport.py), its *)
(* batched service calls (services/*.py) and its identity elements         *)
(* (properties.py).                                                        *)
(*                                                                         *)
(* The module holds one specification per area of the code:                *)
(*   SpecAuth   get_auth_method_from_response / _tokenize                  *)
(*   SpecProbe  get_service_authtype, run by one operation                 *)
(*   SpecProbe2 get_service_authtype, run by two concurrent operations     *)
(*   SpecBatch  GetFolder.call and the pooled service calls                *)
(*   SpecId     ItemId / ParentItemId / RootItemId to_xml and from_xml     *)
(*   SpecMailbox  Mailbox construction, clean, to_xml, __hash__, __eq__    *)
(*   SpecFields   EWSElement.get_field_by_fieldname / add_field /          *)
(*                remove_field on a class and its subclass                 *)
(*   SpecCalls    two calls of GetFolder.call on one service instance      *)
(* Every specification leaves the variables of the other areas at their    *)
(* idle values.                                                            *)
(*                                                                         *)
(* A Python str is a sequence of one-character strings, so that lower(),   *)
(* startswith(), split() and the tokenizer work on characters.             *)
(***************************************************************************)
EXTENDS Integers, Sequences, FiniteSets, TLC

VARIABLES
    \* ---- SpecAuth: one call of get_auth_method_from_response
    a_status,        \* response.status_code
    a_headers,       \* response.headers.items(): a sequence of <<key, val>>
    a_result,        \* "pending", the value returned, or the exception raised
    \* ---- SpecProbe: get_service_authtype
    now,             \* the clock (time.monotonic / datetime.now), in ticks
    back_off_until,  \* retry_policy.back_off_until: NoTime (None) or a time
    retry_policy,    \* protocol.retry_policy: its kind and max_wait
    pc,              \* per operation: the place in get_service_authtype
    ver,             \* per operation: index of api_version in the for loop
    t_start,         \* per operation: t_start (line 79)
    retry,           \* per operation: retry (line 78)
    wake,            \* per operation: the time _back_off_if_needed sleeps to
    r,               \* per operation: the response r (line 90 / 102)
    err,             \* per operation: the exception caught at line 99
    held,            \* per operation: number of raw sessions held
    outcome,         \* per operation: "running", the auth type or the error
    attempts,        \* per operation: history of the attempts made
    \* ---- SpecBatch: one service instance, one call
    svc,             \* the service class
    items,           \* the items given to call()
    chunk_size,      \* the server-imposed chunk size
    self_folders,    \* GetFolder.folders
    b_pc,            \* "new", "called", "done", "failed"
    responses,       \* per chunk: None or the elements of its wire response
    wire_calls,      \* number of wire calls issued
    pulled,          \* number of elements the consumer side has drawn
    results,         \* the results yielded so far
    b_error,         \* None or the fatal error raised
    \* ---- SpecId: identity elements
    i_cls,           \* the element class
    i_id,            \* the id given to the constructor
    i_changekey,     \* the changekey given to the constructor
    i_pc,            \* "new", "built", "xml", "parsed", "error"
    i_elem,          \* the XML element produced by to_xml
    i_back,          \* the object produced by from_xml
    \* ---- SpecMailbox: two Mailbox objects
    mbox,            \* per object: name, email_address, mailbox_type, item_id
    mb_pc,           \* per object: "new", "built" or the exception of __init__
    mb_hash,         \* per object: the outcome of the last hash(m)
    mb_eq,           \* the outcome of the last m1 == m2
    mb_xml,          \* per object: the outcome of the last m.to_xml(version)
    \* ---- SpecFields: the class attributes of a class and its subclass
    FIELDS,          \* per class: its own FIELDS attribute, or NoAttr
    fields_map,      \* per class: its own _fields_map attribute, or NoAttr
    f_last,          \* the last classmethod call and what it gave
    \* ---- SpecCalls: one GetFolder instance, two calls of call()
    c_folders,       \* self.folders of the instance
    c_call           \* per call: its place, the folders given, zip's folders,
                     \* the results yielded

authVars  == <<a_status, a_headers, a_result>>
probeVars == <<now, back_off_until, retry_policy, pc, ver, t_start, retry, wake, r,
               err, held, outcome, attempts>>
batchVars == <<svc, items, chunk_size, self_folders, b_pc, responses,
               wire_calls, pulled, results, b_error>>
idVars    == <<i_cls, i_id, i_changekey, i_pc, i_elem, i_back>>
mboxVars  == <<mbox, mb_pc, mb_hash, mb_eq, mb_xml>>
fieldVars == <<FIELDS, fields_map, f_last>>
callVars  == <<c_folders, c_call>>
vars      == <<authVars, probeVars, batchVars, idVars, mboxVars, fieldVars, callVars>>

\* What the actions of one area leave unchanged
notAuth  == <<probeVars, batchVars, idVars, mboxVars, fieldVars, callVars>>
notProbe == <<authVars, batchVars, idVars, mboxVars, fieldVars, callVars>>
notBatch == <<authVars, probeVars, idVars, mboxVars, fieldVars, callVars>>
notId    == <<authVars, probeVars, batchVars, mboxVars, fieldVars, callVars>>
notMbox  == <<authVars, probeVars, batchVars, idVars, fieldVars, callVars>>
notField == <<authVars, probeVars, batchVars, idVars, mboxVars, callVars>>
notCalls == <<authVars, probeVars, batchVars, idVars, mboxVars, fieldVars>>

None == "None"
\* None where the other values are numbers
NoTime == -1

(***************************************************************************)
(* Python str helpers                                                      *)
(***************************************************************************)
UpperLetters == <<"A","B","C","D","E","F","G","H","I","J","K","L","M",
                  "N","O","P","Q","R","S","T","U","V","W","X","Y","Z">>
LowerLetters == <<"a","b","c","d","e","f","g","h","i","j","k","l","m",
                  "n","o","p","q","r","s","t","u","v","w","x","y","z">>

\* str.lower() on one character
LowerChar(c) ==
    IF \E i \in 1..26 : UpperLetters[i] = c
    THEN LowerLetters[CHOOSE i \in 1..26 : UpperLetters[i] = c]
    ELSE c

\* str.lower()
Lower(s) == [i \in 1..Len(s) |-> LowerChar(s[i])]

\* str.startswith(prefix)
StartsWith(s, prefix) ==
    /\ Len(s) >= Len(prefix)
    /\ SubSeq(s, 1, Len(prefix)) = prefix

\* `c in s` for a character c
HasChar(s, c) == \E i \in 1..Len(s) : s[i] = c

\* `word in s` for a str word (substring test)
Occurs(word, s) ==
    \E i \in 1..(Len(s) - Len(word) + 1) : SubSeq(s, i, i + Len(word) - 1) = word

\* `x in seq` for a list
InList(x, seq) == \E i \in 1..Len(seq) : seq[i] = x

RECURSIVE Flatten(_)
Flatten(ss) == IF ss = <<>> THEN <<>> ELSE Head(ss) \o Flatten(Tail(ss))

(***************************************************************************)
(* transport.py: the auth type enums                                       *)
(***************************************************************************)
NOAUTH == "no authentication"
NTLM   == "NTLM"
BASIC  == "basic"
DIGEST == "digest"

UnauthorizedError == "UnauthorizedError"
TransportError    == "TransportError"
IndexError        == "IndexError"

s_digest == <<"d","i","g","e","s","t">>
s_ntlm   == <<"n","t","l","m">>
s_basic  == <<"b","a","s","i","c">>
s_realm  == <<"r","e","a","l","m">>

(***************************************************************************)
(* transport.py, _tokenize: one iteration of `for c in val`.  st is the    *)
(* loop's state: auth_methods, auth_method, quote.                         *)
(***************************************************************************)
TokenizeChar(st, c) ==
    IF c \in {" ", ","} /\ ~st.quote
    THEN [st EXCEPT !.auth_methods =
                        IF st.auth_method \notin {<<>>, <<",">>}
                        THEN Append(@, st.auth_method) ELSE @,
                    !.auth_method = <<>>]
    ELSE IF c = "\""
    THEN IF st.quote
         THEN [auth_methods |-> Append(st.auth_methods, Append(st.auth_method, c)),
               auth_method  |-> <<>>,
               quote        |-> FALSE]
         ELSE [st EXCEPT !.auth_method = Append(@, c), !.quote = TRUE]
    ELSE [st EXCEPT !.auth_method = Append(@, c)]

RECURSIVE TokenizeFrom(_, _, _)
TokenizeFrom(val, i, st) ==
    IF i > Len(val) THEN st ELSE TokenizeFrom(val, i + 1, TokenizeChar(st, val[i]))

\* transport.py, _tokenize
Tokenize(val) ==
    LET st == TokenizeFrom(val, 1, [auth_methods |-> <<>>, auth_method |-> <<>>,
                                    quote |-> FALSE])
    IN  IF st.auth_method # <<>>
        THEN Append(st.auth_methods, st.auth_method)
        ELSE st.auth_methods

\* v.split("=")[1] raises IndexError when v holds no "="
RealmRaises(vals) ==
    \E i \in 1..Len(vals) : StartsWith(vals[i], s_realm) /\ ~HasChar(vals[i], "=")

\* The body of `if key.lower() == "www-authenticate"` for one header value:
\* the auth type returned, the exception raised, or None to go on with the
\* next header.
AuthFromValue(val) ==
    LET vals == Tokenize(Lower(val))
    IN  IF RealmRaises(vals) THEN IndexError
        ELSE IF InList(s_digest, vals) THEN DIGEST
        ELSE IF InList(s_ntlm, vals) THEN NTLM
        ELSE IF InList(s_basic, vals) THEN BASIC
        ELSE None

\* key.lower() for the header names of the model
KeyLower(key) ==
    CASE key = "WWW-Authenticate" -> "www-authenticate"
      [] key = "Content-Type"     -> "content-type"
      [] OTHER                    -> key

RECURSIVE AuthFromHeaders(_, _)
AuthFromHeaders(headers, i) ==
    IF i > Len(headers) THEN UnauthorizedError
    ELSE IF KeyLower(headers[i][1]) = "www-authenticate"
            /\ AuthFromValue(headers[i][2]) # None
         THEN AuthFromValue(headers[i][2])
         ELSE AuthFromHeaders(headers, i + 1)

\* transport.py, get_auth_method_from_response
get_auth_method_from_response(status, headers) ==
    IF status = 200 THEN NOAUTH ELSE AuthFromHeaders(headers, 1)


(***************************************************************************)
(* SpecAuth: the responses get_auth_method_from_response is applied to     *)
(***************************************************************************)
MaxPieces == 3

p_Digest == <<"D","i","g","e","s","t">>
p_NTLM   == <<"N","T","L","M">>
p_Basic  == <<"B","a","s","i","c">>
p_Nego   == <<"N","e","g","o","t","i","a","t","e">>

\* The lexemes header values are built from
Pieces == {p_Digest, p_NTLM, p_Basic, s_realm, <<"=">>, <<"\"">>, <<" ">>,
           <<",">>, <<"x">>}

PieceSeqs == UNION {[1..n -> Pieces] : n \in 0..MaxPieces}

\* Digest realm="x", NTLM, Basic realm="y"
ExampleHeader ==
    Flatten(<<p_Digest, <<" ">>, s_realm, <<"=", "\"", "x", "\"", ",", " ">>,
              p_NTLM, <<",", " ">>, p_Basic, <<" ">>, s_realm,
              <<"=", "\"", "y", "\"">> >>)

\* Basic realm="a digest, ntlm"
QuotedSchemesHeader ==
    Flatten(<<p_Basic, <<" ">>, s_realm, <<"=", "\"", "a", " ">>, s_digest,
              <<",", " ">>, s_ntlm, <<"\"">> >>)

\* Basic realm = "x"   (RFC 7235 allows white space around the "=")
SpacedRealmHeader ==
    Flatten(<<p_Basic, <<" ">>, s_realm, <<" ", "=", " ", "\"", "x", "\"">> >>)

\* Negotiate
NegotiateHeader == p_Nego

\* Negotiate realm = "x"
NegotiateRealmHeader ==
    Flatten(<<p_Nego, <<" ">>, s_realm, <<" ", "=", " ", "\"", "x", "\"">> >>)

FixedValues == {ExampleHeader, QuotedSchemesHeader, SpacedRealmHeader,
                NegotiateHeader, NegotiateRealmHeader}

HeaderValues == {Flatten(ps) : ps \in PieceSeqs} \cup FixedValues

\* response.headers.items() of the responses of the model: no
\* WWW-Authenticate header, one, or one after another header.
HeaderLists ==
    {<<>>}
    \cup {<< <<"WWW-Authenticate", v>> >> : v \in HeaderValues}
    \cup {<< <<"Content-Type", <<"x">> >>, <<"www-authenticate", v>> >> :
             v \in FixedValues}

Statuses == {200, 401, 403}

(***************************************************************************)
(* Idle values of each area's variables                                    *)
(***************************************************************************)
AuthIdle ==
    /\ a_status = 0
    /\ a_headers = <<>>
    /\ a_result = "pending"

InitAuth ==
    /\ a_status \in Statuses
    /\ a_headers \in HeaderLists
    /\ a_result = "pending"

\* A caller applies get_auth_method_from_response to the response
Resolve ==
    /\ a_result = "pending"
    /\ a_result' = get_auth_method_from_response(a_status, a_headers)
    /\ UNCHANGED <<notAuth, a_status, a_headers>>

NextAuth == Resolve


(***************************************************************************)
(* SpecProbe: get_service_authtype (transport.py lines 68-125), run by the *)
(* operations of Ops on one protocol, so on one retry policy.              *)
(***************************************************************************)
Ops == {"op1", "op2"}

\* Number of versions ConvertId.supported_api_versions() returns; a version
\* is its index in that list, 1 the most preferred.
NumVersions == 2

\* The clock stops here
MaxTime == 4

\* util.RETRY_WAIT, in ticks
RETRY_WAIT == 2

\* util.CONNECTION_ERRORS, the exceptions line 99 catches, and the TLS
\* errors among them
TLS_ERRORS == {"SSLError"}
CONNECTION_ERRORS == {"Timeout"} \cup TLS_ERRORS

\* The retry policies a protocol is configured with
RetryPolicies == {[kind |-> "FailFast", max_wait |-> 0],
                  [kind |-> "FaultTolerance", max_wait |-> 2]}

WWWAuth(v) == << <<"WWW-Authenticate", v>> >>

\* The responses the server gives to a probe
ProbeResponses ==
    {[status_code |-> 200, headers |-> <<>>, retry_after |-> NoTime],
     [status_code |-> 500, headers |-> <<>>, retry_after |-> NoTime],
     [status_code |-> 401, headers |-> WWWAuth(p_NTLM), retry_after |-> NoTime],
     [status_code |-> 401, headers |-> WWWAuth(NegotiateHeader), retry_after |-> NoTime],
     [status_code |-> 401, headers |-> WWWAuth(NegotiateRealmHeader), retry_after |-> NoTime]}

NoResponse == [status_code |-> 0, headers |-> <<>>, retry_after |-> NoTime]

\* util.DummyResponse(url=..., request_headers=...): no response headers
DummyResponse == [status_code |-> 503, headers |-> <<>>, retry_after |-> NoTime]

\* util._retry_after(r, default): the Retry-After header if present
retry_after(resp, default) ==
    IF resp.retry_after # NoTime THEN resp.retry_after ELSE default

\* retry_policy.may_retry_on_error(response, wait)
may_retry_on_error(response, wait) ==
    /\ retry_policy.kind = "FaultTolerance"
    /\ wait <= retry_policy.max_wait

\* retry_policy.back_off(seconds): the new back_off_until
back_off(seconds) == now + seconds

\* util._back_off_if_needed(back_off_until): TRUE when it sleeps
back_off_if_needed(until) == until # NoTime /\ now < until

\* line 101: total_wait = time.monotonic() - t_start
TotalWaitSinceVersion(o) ==
    LET mine == {i \in 1..Len(attempts[o]) : attempts[o][i].ver = ver[o]}
        first == CHOOSE i \in mine : \A j \in mine : i <= j
    IN  now - attempts[o][first].t

TotalWait(o) == now - t_start[o]

\* line 99: except CONNECTION_ERRORS
Caught(e) == e \in CONNECTION_ERRORS

\* line 116: r.status_code not in (200, 401) is an unexpected response
UsableStatusOnly401(status) == status = 401

UsableStatus(status) == status \in {200, 401}

AuthTypes == {NOAUTH, NTLM, BASIC, DIGEST}

\* The state in which the operations of `starting` are about to call
\* get_service_authtype on a protocol with retry policy `policy`
ProbeInit(starting, policy) ==
    /\ now = 0
    /\ back_off_until = NoTime
    /\ retry_policy = policy
    /\ pc = [o \in Ops |-> IF o \in starting THEN "start" ELSE "idle"]
    /\ ver = [o \in Ops |-> 0]
    /\ t_start = [o \in Ops |-> 0]
    /\ retry = [o \in Ops |-> 0]
    /\ wake = [o \in Ops |-> 0]
    /\ r = [o \in Ops |-> NoResponse]
    /\ err = [o \in Ops |-> None]
    /\ held = [o \in Ops |-> 0]
    /\ outcome = [o \in Ops |-> "running"]
    /\ attempts = [o \in Ops |-> <<>>]

ProbeIdle == ProbeInit({}, [kind |-> "FailFast", max_wait |-> 0])

\* lines 76-83: the operation starts, with the first candidate version
Start(o) ==
    /\ pc[o] = "start"
    /\ t_start' = [t_start EXCEPT ![o] = now]
    /\ retry' = [retry EXCEPT ![o] = 0]
    /\ ver' = [ver EXCEPT ![o] = 1]
    /\ pc' = [pc EXCEPT ![o] = "check"]
    /\ UNCHANGED <<notProbe, now, back_off_until, retry_policy, wake, r, err, held,
                   outcome, attempts>>

\* line 86: _back_off_if_needed(retry_policy.back_off_until).  The value of
\* back_off_until is read once, here; the sleep lasts until that value.
Check(o) ==
    /\ pc[o] = "check"
    /\ IF back_off_if_needed(back_off_until)
       THEN /\ wake' = [wake EXCEPT ![o] = back_off_until]
            /\ pc' = [pc EXCEPT ![o] = "sleep"]
       ELSE /\ pc' = [pc EXCEPT ![o] = "session"]
            /\ UNCHANGED wake
    /\ UNCHANGED <<notProbe, now, back_off_until, retry_policy, ver, t_start, retry, r,
                   err, held, outcome, attempts>>

\* time.sleep() in _back_off_if_needed returns
Wake(o) ==
    /\ pc[o] = "sleep"
    /\ now >= wake[o]
    /\ pc' = [pc EXCEPT ![o] = "session"]
    /\ UNCHANGED <<notProbe, now, back_off_until, retry_policy, ver, t_start, retry,
                   wake, r, err, held, outcome, attempts>>

\* line 88: the with block is left by `exit` ("break", "continue", "raise"
\* or "propagate") and the session goes back, but for `continue`
ReleaseExceptOnContinue(n, exit) == IF exit = "continue" THEN n ELSE n - 1

\* line 88: the with block is left by `exit` and the session goes back: n
\* sessions were held
Release(n, exit) == n - 1

\* line 88: with protocol.raw_session(service_endpoint) as s
Acquire(o) ==
    /\ pc[o] = "session"
    /\ held' = [held EXCEPT ![o] = @ + 1]
    /\ pc' = [pc EXCEPT ![o] = "post"]
    /\ UNCHANGED <<notProbe, now, back_off_until, retry_policy, ver, t_start, retry,
                   wake, r, err, outcome, attempts>>

\* The record of the attempt whose POST starts now
Attempt(o, resp, e) ==
    [ver |-> ver[o], t |-> now, gate |-> back_off_until, resp |-> resp,
     err |-> e, t_asked |-> NoTime, asked |-> NoTime, permit |-> FALSE]

\* lines 90-98: the POST gives a response; r.close(); break leaves the with
\* block, which releases the session
PostOk(o, resp) ==
    /\ pc[o] = "post"
    /\ r' = [r EXCEPT ![o] = resp]
    /\ attempts' = [attempts EXCEPT ![o] = Append(@, Attempt(o, resp, None))]
    /\ held' = [held EXCEPT ![o] = Release(@, "break")]
    /\ pc' = [pc EXCEPT ![o] = "status"]
    /\ UNCHANGED <<notProbe, now, back_off_until, retry_policy, ver, t_start, retry,
                   wake, err, outcome>>

\* lines 90-99: the POST raises e; an exception the except clause does not
\* catch leaves the function (and the with block)
PostErr(o, e) ==
    /\ pc[o] = "post"
    /\ attempts' = [attempts EXCEPT ![o] = Append(@, Attempt(o, NoResponse, e))]
    /\ err' = [err EXCEPT ![o] = e]
    /\ IF Caught(e)
       THEN /\ pc' = [pc EXCEPT ![o] = "except"]
            /\ UNCHANGED <<held, outcome>>
       ELSE /\ pc' = [pc EXCEPT ![o] = "done"]
            /\ held' = [held EXCEPT ![o] = Release(@, "propagate")]
            /\ outcome' = [outcome EXCEPT ![o] = e]
    /\ UNCHANGED <<notProbe, now, back_off_until, retry_policy, ver, t_start, retry,
                   wake, r>>

\* lines 100-115: the except clause
Except(o) ==
    /\ pc[o] = "except"
    /\ LET total_wait == TotalWait(o)
           permit == may_retry_on_error(DummyResponse, total_wait)
           n == Len(attempts[o])
       IN  /\ r' = [r EXCEPT ![o] = DummyResponse]
           /\ attempts' = [attempts EXCEPT ![o][n].t_asked = now,
                                           ![o][n].asked = total_wait,
                                           ![o][n].permit = permit]
           /\ held' = [held EXCEPT ![o] =
                          Release(@, IF permit THEN "continue" ELSE "raise")]
           /\ IF permit
              THEN /\ back_off_until' = back_off(retry_after(DummyResponse, RETRY_WAIT))
                   /\ retry' = [retry EXCEPT ![o] = @ + 1]
                   /\ pc' = [pc EXCEPT ![o] = "check"]
                   /\ UNCHANGED outcome
              ELSE /\ outcome' = [outcome EXCEPT ![o] = TransportError]
                   /\ pc' = [pc EXCEPT ![o] = "done"]
                   /\ UNCHANGED <<back_off_until, retry>>
    /\ UNCHANGED <<notProbe, now, retry_policy, ver, t_start, wake, err>>

\* `continue` of the for loop (lines 118, 124), and line 125 after the loop
NextVersion(o) ==
    IF ver[o] < NumVersions
    THEN /\ ver' = [ver EXCEPT ![o] = @ + 1]
         /\ pc' = [pc EXCEPT ![o] = "check"]
         /\ UNCHANGED outcome
    ELSE /\ outcome' = [outcome EXCEPT ![o] = TransportError]
         /\ pc' = [pc EXCEPT ![o] = "done"]
         /\ UNCHANGED ver

\* lines 116-124: the response of the POST is looked at
Status(o) ==
    /\ pc[o] = "status"
    /\ IF ~UsableStatus(r[o].status_code)
       THEN NextVersion(o)
       ELSE LET auth_type == get_auth_method_from_response(r[o].status_code,
                                                           r[o].headers)
            IN  IF auth_type = UnauthorizedError
                THEN NextVersion(o)
                ELSE /\ outcome' = [outcome EXCEPT ![o] = auth_type]
                     /\ pc' = [pc EXCEPT ![o] = "done"]
                     /\ UNCHANGED ver
    /\ UNCHANGED <<notProbe, now, back_off_until, retry_policy, t_start, retry, wake, r,
                   err, held, attempts>>

\* Time passes
Tick ==
    /\ now < MaxTime
    /\ now' = now + 1
    /\ UNCHANGED <<notProbe, back_off_until, retry_policy, pc, ver, t_start, retry, wake,
                   r, err, held, outcome, attempts>>

\* One step of operation o, the server answering from resps and the
\* connection failing with one of errs
OpStep(o, resps, errs) ==
    \/ Start(o)
    \/ Check(o)
    \/ Wake(o)
    \/ Acquire(o)
    \/ \E resp \in resps : PostOk(o, resp)
    \/ \E e \in errs : PostErr(o, e)
    \/ Except(o)
    \/ Status(o)

\* One operation, every response and every connection error
NextProbe ==
    \/ Tick
    \/ OpStep("op1", ProbeResponses, CONNECTION_ERRORS)

\* Two concurrent operations on one retry policy
ConcResponses == {resp \in ProbeResponses : resp.status_code = 200}

NextProbe2 ==
    \/ Tick
    \/ \E o \in Ops : OpStep(o, ConcResponses, {"Timeout"})

(***************************************************************************)
(* SpecBatch: one call() on one service instance.  GetFolder.call draws    *)
(* the elements of _chunked_get_elements through _elems_to_objs;           *)
(* EmptyFolder.call, like SendItem.call and DeleteAttachment.call, returns *)
(* what _pool_requests yields.  An item is a folder (or item) id; an       *)
(* element of a wire response is [kind, pos], pos its place in the whole   *)
(* reply of the server.                                                    *)
(***************************************************************************)
MaxItems == 3
MaxChunk == 2

Services == {"GetFolder", "EmptyFolder"}

\* EWSAccountService.ERRORS_TO_CATCH_IN_RESPONSE, the faults every service
\* yields as values
BaseErrorsToCatch == {"ErrorItemNotFound"}

\* get_folder.py lines 12-14, without ErrorInvalidOperation
ErrorsToCatchWithoutInvalidOperation(service) ==
    IF service = "GetFolder"
    THEN BaseErrorsToCatch \cup {"ErrorFolderNotFound",
                                 "ErrorNoPublicFolderReplicaAvailable"}
    ELSE BaseErrorsToCatch

\* get_folder.py lines 12-14: ERRORS_TO_CATCH_IN_RESPONSE of the service
ERRORS_TO_CATCH_IN_RESPONSE(service) ==
    IF service = "GetFolder"
    THEN BaseErrorsToCatch \cup {"ErrorFolderNotFound",
                                 "ErrorNoPublicFolderReplicaAvailable",
                                 "ErrorInvalidOperation"}
    ELSE BaseErrorsToCatch

\* What a response element can be: a result, or a fault of the item
ElemKinds == {"ok", "ErrorItemNotFound", "ErrorFolderNotFound",
              "ErrorNoPublicFolderReplicaAvailable", "ErrorInvalidOperation"}

\* chunkify(items, chunk_size): the number of chunks, and chunk k's place
NumChunks == (Len(items) + chunk_size - 1) \div chunk_size
ChunkStart(k) == (k - 1) * chunk_size
ChunkLen(k) ==
    IF k * chunk_size <= Len(items) THEN chunk_size
    ELSE Len(items) - ChunkStart(k)

\* The engine's check of a chunk response against the chunk, without it
ChunkOkAlways(elems, n) == TRUE

\* The engine's check of a chunk response against the chunk: the number of
\* results is the number of items
ChunkOk(elems, n) == Len(elems) = n

\* The wire responses the server can give to chunk k: one element per item,
\* one too few, or one (a result) too many
WireResponses(k) ==
    UNION {[1..n -> ElemKinds] : n \in (ChunkLen(k) - 1)..ChunkLen(k)}
    \cup {Append(kinds, "ok") : kinds \in [1..ChunkLen(k) -> ElemKinds]}

Elems(k, kinds) == [j \in 1..Len(kinds) |-> [kind |-> kinds[j], pos |-> ChunkStart(k) + j]]

NotGot == [got |-> FALSE, elems |-> <<>>]

\* The elements of the responses of chunks 1..m, in order
RECURSIVE Stream(_)
Stream(m) == IF m = 0 THEN <<>> ELSE Stream(m - 1) \o responses[m].elems

Bad(k) == responses[k].got /\ ~ChunkOk(responses[k].elems, ChunkLen(k))

\* The chunk the consumer is at: the first one that is not received yet,
\* fails the check, or holds an element not drawn yet; NumChunks + 1 when
\* every chunk is drawn.
AtChunk ==
    LET open == {k \in 1..NumChunks :
                    \/ ~responses[k].got
                    \/ Bad(k)
                    \/ pulled < Len(Stream(k))}
    IN  IF open = {} THEN NumChunks + 1
        ELSE CHOOSE k \in open : \A j \in open : k <= j

\* parse_folder_elem(elem=elem, folder=folder, account=self.account)
parse_folder_elem(elem, folder) ==
    [kind |-> "folder", folder |-> folder, elem |-> elem.pos, error |-> None]

ErrorValue(elem) ==
    [kind |-> "error", folder |-> 0, elem |-> elem.pos, error |-> elem.kind]

PlainResult(elem) ==
    [kind |-> "result", folder |-> 0, elem |-> elem.pos, error |-> None]

\* get_folder.py line 40: the folder zip() pairs with the n-th element,
\* taken from the wrong end
ZipFolderReversed(n) == self_folders[Len(self_folders) + 1 - n]

\* get_folder.py line 40: the folder zip() pairs with the n-th element
ZipFolder(n) == self_folders[n]

\* get_folder.py lines 41-44: the body of the loop of _elems_to_objs
ElemToObj(elem, n) ==
    IF elem.kind # "ok" THEN ErrorValue(elem)
    ELSE parse_folder_elem(elem, ZipFolder(n))

BatchIdle ==
    /\ svc = None
    /\ items = <<>>
    /\ chunk_size = 1
    /\ self_folders = <<>>
    /\ b_pc = "idle"
    /\ responses = <<>>
    /\ wire_calls = 0
    /\ pulled = 0
    /\ results = <<>>
    /\ b_error = None

InitBatch ==
    /\ svc \in Services
    /\ \E n \in 0..MaxItems : items = [i \in 1..n |-> 10 + i]
    /\ chunk_size \in 1..MaxChunk
    /\ self_folders = <<>>
    /\ b_pc = "new"
    /\ responses = <<>>
    /\ wire_calls = 0
    /\ pulled = 0
    /\ results = <<>>
    /\ b_error = None

\* call(): GetFolder keeps list(folders) in self.folders (line 31); nothing
\* is sent before the returned sequence is consumed
Call ==
    /\ b_pc = "new"
    /\ b_pc' = "called"
    /\ self_folders' = IF svc = "GetFolder" THEN items ELSE self_folders
    /\ responses' = [k \in 1..NumChunks |-> NotGot]
    /\ UNCHANGED <<notBatch, svc, items, chunk_size, wire_calls, pulled,
                   results, b_error>>

\* zip() asks for an element only while it has a folder left (line 40)
Wanted == svc = "GetFolder" => Len(results) < Len(self_folders)

\* One wire call: the payload of chunk k is sent and its response received.
\* _chunked_get_elements sends a chunk when the consumer gets to it;
\* _pool_requests hands every chunk to the thread pool.
WireCall(k, kinds) ==
    /\ b_pc = "called"
    /\ ~responses[k].got
    /\ svc = "GetFolder" => (Wanted /\ k = AtChunk)
    /\ responses' = [responses EXCEPT ![k] = [got |-> TRUE, elems |-> Elems(k, kinds)]]
    /\ wire_calls' = wire_calls + 1
    /\ UNCHANGED <<notBatch, svc, items, chunk_size, self_folders, b_pc,
                   pulled, results, b_error>>

\* The consumer's next() on the returned sequence ends the sequence
Exhausted ==
    /\ b_pc = "called"
    /\ ~Wanted \/ AtChunk = NumChunks + 1
    /\ b_pc' = "done"
    /\ UNCHANGED <<notBatch, svc, items, chunk_size, self_folders, responses,
                   wire_calls, pulled, results, b_error>>

\* The consumer's next() on the returned sequence gives a result or raises
Yield ==
    /\ b_pc = "called"
    /\ Wanted
    /\ AtChunk <= NumChunks
    /\ responses[AtChunk].got
    /\ LET elem == Stream(AtChunk)[pulled + 1]
       IN  IF Bad(AtChunk)
           THEN /\ b_pc' = "failed"
                /\ b_error' = "ProtocolError"
                /\ UNCHANGED <<pulled, results>>
           ELSE IF elem.kind \notin {"ok"} \cup ERRORS_TO_CATCH_IN_RESPONSE(svc)
           THEN /\ b_pc' = "failed"
                /\ b_error' = elem.kind
                /\ UNCHANGED <<pulled, results>>
           ELSE /\ pulled' = pulled + 1
                /\ results' = Append(results,
                                 IF svc = "GetFolder"
                                 THEN ElemToObj(elem, Len(results) + 1)
                                 ELSE IF elem.kind = "ok" THEN PlainResult(elem)
                                 ELSE ErrorValue(elem))
                /\ UNCHANGED <<b_pc, b_error>>
    /\ UNCHANGED <<notBatch, svc, items, chunk_size, self_folders, responses,
                   wire_calls>>

NextBatch ==
    \/ Call
    \/ \E k \in 1..NumChunks : \E kinds \in WireResponses(k) : WireCall(k, kinds)
    \/ Yield
    \/ Exhausted

(***************************************************************************)
(* SpecId: an identity element is built, written with to_xml and read back *)
(* with from_xml (properties.py lines 175-236)                             *)
(***************************************************************************)
TNS == "http://schemas.microsoft.com/exchange/services/2006/types"
MNS == "http://schemas.microsoft.com/exchange/services/2006/messages"

IdClasses == {"ItemId", "ParentItemId", "RootItemId"}

\* The values given as id and changekey: None and strings
IdValues == {None, "", "a", "b", "AAMkAD"}

ELEMENT_NAME(cls) == cls

NAMESPACE(cls) == IF cls = "ItemId" THEN TNS ELSE MNS

\* ItemId.ID_ATTR for every class
ID_ATTR_OfItemId(cls) == "Id"

ID_ATTR(cls) == IF cls = "RootItemId" THEN "RootItemId" ELSE "Id"

CHANGEKEY_ATTR(cls) == IF cls = "RootItemId" THEN "RootItemChangeKey" ELSE "ChangeKey"

\* EWSElement.request_tag: 't:Name' or 'm:Name'
request_tag(cls) ==
    [prefix |-> IF NAMESPACE(cls) = TNS THEN "t" ELSE "m", name |-> ELEMENT_NAME(cls)]

\* EWSElement.response_tag: '{namespace}Name'
response_tag(cls) == [ns |-> NAMESPACE(cls), name |-> ELEMENT_NAME(cls)]

\* util.create_element(name): the element's tag, its prefix resolved
create_element(tag) ==
    [tag |-> [ns |-> IF tag.prefix = "t" THEN TNS ELSE MNS, name |-> tag.name],
     attrib |-> <<>>]

\* elem.set(key, value)
ElemSet(elem, key, value) ==
    [elem EXCEPT !.attrib =
        [k \in DOMAIN elem.attrib \cup {key} |->
            IF k = key THEN value ELSE elem.attrib[k]]]

\* elem.get(key)
ElemGet(elem, key) ==
    IF key \in DOMAIN elem.attrib THEN elem.attrib[key] ELSE None

\* ItemId.clean: TRUE when it raises ValueError
CleanRaises(id, changekey) ==
    \/ id = None \/ id = ""
    \/ changekey = None \/ changekey = ""

\* ItemId.to_xml
to_xml(cls, id, changekey) ==
    ElemSet(ElemSet(create_element(request_tag(cls)), ID_ATTR(cls), id),
            CHANGEKEY_ATTR(cls), changekey)

\* The attribute from_xml reads the id from (line 209)
FromXmlIdAttr(cls) == ID_ATTR(cls)

\* ItemId.__eq__
ItemIdEq(x, y) == x.id = y.id /\ x.changekey = y.changekey

NoElem == [tag |-> [ns |-> "", name |-> ""], attrib |-> <<>>]
NoObj  == [cls |-> None, id |-> None, changekey |-> None]

IdIdle ==
    /\ i_cls = None
    /\ i_id = None
    /\ i_changekey = None
    /\ i_pc = "idle"
    /\ i_elem = NoElem
    /\ i_back = NoObj

InitId ==
    /\ i_cls \in IdClasses
    /\ i_id \in IdValues
    /\ i_changekey \in IdValues
    /\ i_pc = "new"
    /\ i_elem = NoElem
    /\ i_back = NoObj

\* cls(id=..., changekey=...): __init__ calls clean()
Construct ==
    /\ i_pc = "new"
    /\ i_pc' = IF CleanRaises(i_id, i_changekey) THEN "ValueError" ELSE "built"
    /\ UNCHANGED <<notId, i_cls, i_id, i_changekey, i_elem, i_back>>

\* e.to_xml(version)
ToXml ==
    /\ i_pc = "built"
    /\ IF CleanRaises(i_id, i_changekey)
       THEN i_pc' = "ValueError" /\ UNCHANGED i_elem
       ELSE i_pc' = "xml" /\ i_elem' = to_xml(i_cls, i_id, i_changekey)
    /\ UNCHANGED <<notId, i_cls, i_id, i_changekey, i_back>>

\* cls.from_xml(elem), for the element's class or another identity class
FromXml(cls) ==
    /\ i_pc = "xml"
    /\ LET id == ElemGet(i_elem, FromXmlIdAttr(cls))
           changekey == ElemGet(i_elem, CHANGEKEY_ATTR(cls))
       IN  IF i_elem.tag # response_tag(cls)
           THEN /\ i_pc' = "AssertionError"
                /\ i_back' = [NoObj EXCEPT !.cls = cls]
                /\ UNCHANGED i_elem
           ELSE IF CleanRaises(id, changekey)
           THEN /\ i_pc' = "ValueError in from_xml"
                /\ i_back' = [NoObj EXCEPT !.cls = cls]
                /\ UNCHANGED i_elem
           ELSE /\ i_pc' = "parsed"
                /\ i_back' = [cls |-> cls, id |-> id, changekey |-> changekey]
                /\ i_elem' = [i_elem EXCEPT !.attrib = <<>>]
    /\ UNCHANGED <<notId, i_cls, i_id, i_changekey>>

NextId ==
    \/ Construct
    \/ ToXml
    \/ \E cls \in IdClasses : FromXml(cls)

(***************************************************************************)
(* SpecMailbox: Mailbox objects (properties.py lines 239-298) are built,   *)
(* have attributes assigned, and are cleaned, written, hashed and compared *)
(***************************************************************************)
Mboxes == {"m1", "m2"}

\* None where the other values are str (sequences) or ItemId (records)
NoEmail == <<"None">>
NoItem  == [id |-> <<"None">>, changekey |-> <<"None">>]

\* Mailbox.MAILBOX_TYPES
MAILBOX_TYPES == {"Mailbox", "PublicDL", "PrivateDL", "Contact", "PublicFolder",
                  "Unknown", "OneOff"}

\* The arguments given to Mailbox(...)
MailboxNames  == {None, "n"}
MailboxEmails == {NoEmail, <<>>, <<"A", "@", "x">>, <<"a", "@", "x">>}
MailboxTypes  == {None, "Mailbox", "Bogus"}
MailboxItemIds == {NoItem,
                   [id |-> <<"a">>, changekey |-> <<"k">>],
                   [id |-> <<"b">>, changekey |-> <<"k">>]}

MailboxArgs == [name : MailboxNames, email_address : MailboxEmails,
                mailbox_type : MailboxTypes, item_id : MailboxItemIds]

\* bool(x) of a str or None, and of an ItemId or None: ItemId defines neither
\* __bool__ nor __len__, so every ItemId is true
TruthyStr(s) == s # NoEmail /\ s # <<>>
TruthyItem(x) == x # NoItem

\* The outcome of a call: the exception raised (None without one), the value
Raised(e) == [raised |-> e, value |-> 0]
Returned(v) == [raised |-> None, value |-> v]
NotRun == [raised |-> "not run", value |-> 0]

\* hash() of a str: a function of its characters, to 16 bits
HashChars == LowerLetters \o UpperLetters \o <<"@", ".">>
CharCode(c) == CHOOSE i \in 1..Len(HashChars) : HashChars[i] = c

RECURSIVE HashStr(_)
HashStr(s) ==
    IF s = <<>> THEN 0
    ELSE (31 * HashStr(SubSeq(s, 1, Len(s) - 1)) + CharCode(s[Len(s)])) % 65536

\* EWSElement.__hash__: hash(tuple(getattr(self, f) for f in self.__slots__))
RECURSIVE HashSlots(_)
HashSlots(values) ==
    IF values = <<>> THEN 7
    ELSE (31 * HashSlots(SubSeq(values, 1, Len(values) - 1))
          + HashStr(values[Len(values)])) % 65536

\* ItemId.__hash__: the class body of ItemId defines __eq__ (line 213) and
\* no __hash__, so the class's __hash__ is None and hash(item_id) raises
\* TypeError (unhashable type)
ItemId_hash == None

HashItemId(x) ==
    IF ItemId_hash = None THEN Raised("TypeError")
    ELSE Returned(HashSlots(<<x.id, x.changekey>>))

\* Mailbox.__hash__ (lines 294-298)
MailboxHash(m) ==
    IF TruthyItem(m.item_id) THEN HashItemId(m.item_id)
    ELSE IF m.email_address = NoEmail THEN Raised("AttributeError")
    ELSE Returned(HashStr(Lower(m.email_address)))

\* EWSElement.__eq__ (lines 136-137): hash(self) == hash(other)
MailboxEq(m, other) ==
    LET h1 == MailboxHash(m)
        h2 == MailboxHash(other)
    IN  IF h1.raised # None THEN Raised(h1.raised)
        ELSE IF h2.raised # None THEN Raised(h2.raised)
        ELSE Returned(h1.value = h2.value)

\* line 263 with `or` for `and`
NoIdentityEither(m) == ~TruthyStr(m.email_address) \/ ~TruthyItem(m.item_id)

\* line 263: not self.email_address and not self.item_id
NoIdentity(m) == ~TruthyStr(m.email_address) /\ ~TruthyItem(m.item_id)

\* Mailbox.clean (lines 254-265): the exception raised, None without one.
\* The names and addresses of the model are str or None and the item ids
\* ItemId or None, so the asserts of lines 256, 258 and 262 pass.
MailboxClean(m) ==
    IF m.mailbox_type # None /\ m.mailbox_type \notin MAILBOX_TYPES
    THEN "AssertionError"
    ELSE IF NoIdentity(m) THEN "AttributeError"
    ELSE None

NoXml == [op |-> "not run", raised |-> None, elem |-> FALSE]

MboxIdle ==
    /\ mbox = [m \in Mboxes |-> [name |-> None, email_address |-> NoEmail,
                                  mailbox_type |-> None, item_id |-> NoItem]]
    /\ mb_pc = [m \in Mboxes |-> "idle"]
    /\ mb_hash = [m \in Mboxes |-> NotRun]
    /\ mb_eq = NotRun
    /\ mb_xml = [m \in Mboxes |-> NoXml]

InitMbox ==
    /\ mbox \in [Mboxes -> MailboxArgs]
    /\ mb_pc = [m \in Mboxes |-> "new"]
    /\ mb_hash = [m \in Mboxes |-> NotRun]
    /\ mb_eq = NotRun
    /\ mb_xml = [m \in Mboxes |-> NoXml]

\* Mailbox(name, email_address, mailbox_type, item_id): __init__ calls clean()
MailboxInit(m) ==
    /\ mb_pc[m] = "new"
    /\ mb_pc' = [mb_pc EXCEPT ![m] = IF MailboxClean(mbox[m]) = None THEN "built"
                                     ELSE MailboxClean(mbox[m])]
    /\ UNCHANGED <<notMbox, mbox, mb_hash, mb_eq, mb_xml>>

\* m.email_address = None / m.item_id = None on a built object; what was
\* computed from the object before is forgotten
ClearAttr(m, attr) ==
    /\ mb_pc[m] \in {"built", "assigned"}
    /\ mbox' = [mbox EXCEPT ![m] =
                   IF attr = "email_address" THEN [@ EXCEPT !.email_address = NoEmail]
                   ELSE [@ EXCEPT !.item_id = NoItem]]
    /\ mbox'[m] # mbox[m]
    /\ mb_pc' = [mb_pc EXCEPT ![m] = "assigned"]
    /\ mb_hash' = [mb_hash EXCEPT ![m] = NotRun]
    /\ mb_xml' = [mb_xml EXCEPT ![m] = NoXml]
    /\ mb_eq' = NotRun
    /\ UNCHANGED notMbox

\* m.clean()
MailboxCleanCall(m) ==
    /\ mb_pc[m] \in {"built", "assigned"}
    /\ mb_xml' = [mb_xml EXCEPT ![m] = [op |-> "clean", raised |-> MailboxClean(mbox[m]),
                                        elem |-> FALSE]]
    /\ UNCHANGED <<notMbox, mbox, mb_pc, mb_hash, mb_eq>>

\* m.to_xml(version) (lines 267-278): clean(), then the element is created
MailboxToXml(m) ==
    /\ mb_pc[m] \in {"built", "assigned"}
    /\ mb_xml' = [mb_xml EXCEPT ![m] = [op |-> "to_xml", raised |-> MailboxClean(mbox[m]),
                                        elem |-> MailboxClean(mbox[m]) = None]]
    /\ UNCHANGED <<notMbox, mbox, mb_pc, mb_hash, mb_eq>>

\* hash(m)
HashCall(m) ==
    /\ mb_pc[m] \in {"built", "assigned"}
    /\ mb_hash' = [mb_hash EXCEPT ![m] = MailboxHash(mbox[m])]
    /\ UNCHANGED <<notMbox, mbox, mb_pc, mb_eq, mb_xml>>

\* m1 == m2
EqCall ==
    /\ \A m \in Mboxes : mb_pc[m] \in {"built", "assigned"}
    /\ mb_eq' = MailboxEq(mbox["m1"], mbox["m2"])
    /\ UNCHANGED <<notMbox, mbox, mb_pc, mb_hash, mb_xml>>

NextMbox ==
    \/ \E m \in Mboxes : MailboxInit(m)
    \/ \E m \in Mboxes : \E attr \in {"email_address", "item_id"} : ClearAttr(m, attr)
    \/ \E m \in Mboxes : MailboxCleanCall(m)
    \/ \E m \in Mboxes : MailboxToXml(m)
    \/ \E m \in Mboxes : HashCall(m)
    \/ EqCall

(***************************************************************************)
(* SpecFields: the field registry of an element class Base and of Sub, a   *)
(* subclass of Base (properties.py lines 83, 112-134).  A class attribute  *)
(* is looked up on the class and then on its bases; it is set and deleted  *)
(* on the class itself.                                                    *)
(***************************************************************************)
Classes == {"Base", "Sub"}

\* The field objects: two of them have the same name
FieldPool == {[name |-> "x", id |-> 1], [name |-> "x", id |-> 2],
              [name |-> "y", id |-> 3], [name |-> "z", id |-> 4]}
FieldNames == {"x", "y", "z"}
NoField == [name |-> "", id |-> 0]

\* A class without the attribute in its own __dict__
NoAttr == [has |-> FALSE, val |-> <<>>]
NoMap  == [has |-> FALSE, val |-> {}]

\* cls.FIELDS: the class's own attribute, else the base's; EWSElement.FIELDS
\* is tuple()
GetFIELDS(cls) ==
    IF FIELDS[cls].has THEN FIELDS[cls].val
    ELSE IF cls = "Sub" /\ FIELDS["Base"].has THEN FIELDS["Base"].val
    ELSE <<>>

\* hasattr(cls, '_fields_map') (line 114)
HasFieldsMap(cls) ==
    fields_map[cls].has \/ (cls = "Sub" /\ fields_map["Base"].has)

\* {f.name: f for f in cls.FIELDS} (line 115): per name, the last field
BuildMap(fs) ==
    {fs[i] : i \in {j \in 1..Len(fs) :
                       \A k \in (j+1)..Len(fs) : fs[k].name # fs[j].name}}

\* cls._fields_map, given the own attributes of the classes
GetFieldsMap(maps, cls) ==
    IF maps[cls].has THEN maps[cls].val ELSE maps["Base"].val

\* d[fieldname]: the field, or KeyError
Subscript(d, fieldname) ==
    IF \E f \in d : f.name = fieldname
    THEN [raised |-> None, value |-> CHOOSE f \in d : f.name = fieldname]
    ELSE [raised |-> "KeyError", value |-> NoField]

\* FIELDS[0:idx] + (field,) + FIELDS[idx:]
InsertAt(fs, field, idx) ==
    SubSeq(fs, 1, idx) \o <<field>> \o SubSeq(fs, idx + 1, Len(fs))

\* tuple(f for f in FIELDS if f != field)
RECURSIVE Without(_, _)
Without(fs, field) ==
    IF fs = <<>> THEN <<>>
    ELSE IF Head(fs) = field THEN Without(Tail(fs), field)
    ELSE <<Head(fs)>> \o Without(Tail(fs), field)

NoCall == [op |-> "none", cls |-> "", field |-> NoField, idx |-> 0,
           before |-> <<>>, result |-> [raised |-> None, value |-> NoField]]

FieldIdle ==
    /\ FIELDS = [c \in Classes |-> NoAttr]
    /\ fields_map = [c \in Classes |-> NoMap]
    /\ f_last = [NoCall EXCEPT !.op = "idle"]

\* The class statements: Base sets FIELDS; Sub sets its own or inherits it
InitFields ==
    /\ \E base \in {<<>>, <<[name |-> "x", id |-> 1]>>} :
       \E sub \in {NoAttr, [has |-> TRUE, val |-> <<[name |-> "x", id |-> 1],
                                                    [name |-> "y", id |-> 3]>>]} :
           FIELDS = [c \in Classes |->
                        IF c = "Base" THEN [has |-> TRUE, val |-> base] ELSE sub]
    /\ fields_map = [c \in Classes |-> NoMap]
    /\ f_last = NoCall

\* cls.get_field_by_fieldname(fieldname) (lines 113-116)
get_field_by_fieldname(cls, fieldname) ==
    LET maps == IF ~HasFieldsMap(cls)
                THEN [fields_map EXCEPT ![cls] =
                         [has |-> TRUE, val |-> BuildMap(GetFIELDS(cls))]]
                ELSE fields_map
    IN  /\ fields_map' = maps
        /\ f_last' = [NoCall EXCEPT !.op = "get", !.cls = cls,
                          !.field = [name |-> fieldname, id |-> 0],
                          !.before = GetFIELDS(cls),
                          !.result = Subscript(GetFieldsMap(maps, cls), fieldname)]
        /\ UNCHANGED <<notField, FIELDS>>

\* cls.add_field(field, idx) (lines 119-125); delattr raises AttributeError,
\* which is passed over, when the class has no _fields_map of its own
add_field(cls, field, idx) ==
    /\ \A i \in 1..Len(GetFIELDS(cls)) : GetFIELDS(cls)[i].name # field.name
    /\ FIELDS' = [FIELDS EXCEPT ![cls] =
                     [has |-> TRUE, val |-> InsertAt(GetFIELDS(cls), field, idx)]]
    /\ fields_map' = [fields_map EXCEPT ![cls] = NoMap]
    /\ f_last' = [NoCall EXCEPT !.op = "add", !.cls = cls, !.field = field,
                      !.idx = idx, !.before = GetFIELDS(cls)]
    /\ UNCHANGED notField

\* cls.remove_field(field) (lines 128-134)
remove_field(cls, field) ==
    /\ FIELDS' = [FIELDS EXCEPT ![cls] =
                     [has |-> TRUE, val |-> Without(GetFIELDS(cls), field)]]
    /\ fields_map' = [fields_map EXCEPT ![cls] = NoMap]
    /\ f_last' = [NoCall EXCEPT !.op = "remove", !.cls = cls, !.field = field,
                      !.before = GetFIELDS(cls)]
    /\ UNCHANGED notField

NextFields ==
    \/ \E cls \in Classes : \E n \in FieldNames : get_field_by_fieldname(cls, n)
    \/ \E cls \in Classes : \E f \in FieldPool :
           \E idx \in 0..Len(GetFIELDS(cls)) : add_field(cls, f, idx)
    \/ \E cls \in Classes : \E f \in FieldPool : remove_field(cls, f)

(***************************************************************************)
(* SpecCalls: call() is invoked twice on one GetFolder instance and the    *)
(* two sequences returned are consumed in any order (get_folder.py lines   *)
(* 16-44).  _elems_to_objs is a generator function: its body, and so the   *)
(* zip() of line 40, runs at the first next() on the sequence.             *)
(***************************************************************************)
CallIds == {"c1", "c2"}

MaxFolders == 2

\* The folders given to a call: those of c1 are 11, 12, ...; of c2 21, 22, ...
FolderBase(c) == IF c = "c1" THEN 10 ELSE 20
FolderLists(c) == {[i \in 1..n |-> FolderBase(c) + i] : n \in 0..MaxFolders}

\* The j-th element _chunked_get_elements yields for items: the folder
\* element of the j-th item
FolderElem(j) == [kind |-> "ok", pos |-> j]

NoCallYet == [pc |-> "idle", given |-> <<>>, zipped |-> <<>>, results |-> <<>>]

CallsIdle ==
    /\ c_folders = <<>>
    /\ c_call = [c \in CallIds |-> [NoCallYet EXCEPT !.pc = "unused"]]

\* GetFolder.__init__ (lines 16-18): self.folders = []
InitCalls ==
    /\ c_folders = <<>>
    /\ c_call = [c \in CallIds |-> NoCallYet]

\* call(folders, ...) (lines 31-37): self.folders = list(folders); the
\* engine is given items=self.folders; the generator object is returned
CallFolders(c, folders) ==
    /\ c_call[c].pc = "idle"
    /\ c_folders' = folders
    /\ c_call' = [c_call EXCEPT ![c] = [@ EXCEPT !.pc = "called", !.given = folders]]
    /\ UNCHANGED notCalls

\* The folders the generator's zip() iterates (line 40): self.folders as
\* it is at the first next(), the same list from then on
ZipFolders(c) ==
    IF c_call[c].pc = "called" THEN c_folders ELSE c_call[c].zipped

\* next() on the sequence call c returned (lines 40-44): zip() takes the
\* next folder, then the next element
NextResult(c) ==
    /\ c_call[c].pc \in {"called", "started"}
    /\ LET zf == ZipFolders(c)
           n == Len(c_call[c].results) + 1
       IN  IF n <= Len(zf) /\ n <= Len(c_call[c].given)
           THEN c_call' = [c_call EXCEPT ![c] =
                    [@ EXCEPT !.pc = "started", !.zipped = zf,
                              !.results = Append(@, parse_folder_elem(FolderElem(n), zf[n]))]]
           ELSE c_call' = [c_call EXCEPT ![c] = [@ EXCEPT !.pc = "done", !.zipped = zf]]
    /\ UNCHANGED <<notCalls, c_folders>>

NextCalls ==
    \/ \E c \in CallIds : \E folders \in FolderLists(c) : CallFolders(c, folders)
    \/ \E c \in CallIds : NextResult(c)

(***************************************************************************)
(* The specifications                                                      *)
(***************************************************************************)
InitSpecAuth ==
    InitAuth /\ ProbeIdle /\ BatchIdle /\ IdIdle /\ MboxIdle /\ FieldIdle /\ CallsIdle

SpecAuth == InitSpecAuth /\ [][NextAuth]_vars

InitSpecProbe ==
    /\ AuthIdle /\ BatchIdle /\ IdIdle /\ MboxIdle /\ FieldIdle /\ CallsIdle
    /\ \E policy \in RetryPolicies : ProbeInit({"op1"}, policy)

SpecProbe == InitSpecProbe /\ [][NextProbe]_vars

InitSpecProbe2 ==
    /\ AuthIdle /\ BatchIdle /\ IdIdle /\ MboxIdle /\ FieldIdle /\ CallsIdle
    /\ ProbeInit(Ops, [kind |-> "FaultTolerance", max_wait |-> 2])

SpecProbe2 == InitSpecProbe2 /\ [][NextProbe2]_vars

InitSpecBatch ==
    AuthIdle /\ ProbeIdle /\ InitBatch /\ IdIdle /\ MboxIdle /\ FieldIdle /\ CallsIdle

SpecBatch == InitSpecBatch /\ [][NextBatch]_vars

InitSpecId ==
    AuthIdle /\ ProbeIdle /\ BatchIdle /\ InitId /\ MboxIdle /\ FieldIdle /\ CallsIdle

SpecId == InitSpecId /\ [][NextId]_vars

InitSpecMailbox ==
    AuthIdle /\ ProbeIdle /\ BatchIdle /\ IdIdle /\ InitMbox /\ FieldIdle /\ CallsIdle

SpecMailbox == InitSpecMailbox /\ [][NextMbox]_vars

InitSpecFields ==
    AuthIdle /\ ProbeIdle /\ BatchIdle /\ IdIdle /\ MboxIdle /\ InitFields /\ CallsIdle

SpecFields == InitSpecFields /\ [][NextFields]_vars

InitSpecCalls ==
    AuthIdle /\ ProbeIdle /\ BatchIdle /\ IdIdle /\ MboxIdle /\ FieldIdle /\ InitCalls

SpecCalls == InitSpecCalls /\ [][NextCalls]_vars

(***************************************************************************)
(* Properties of get_auth_method_from_response (SpecAuth)                  *)
(***************************************************************************)
\* The value of the response's WWW-Authenticate header, "" without one
WWWAuthenticate(headers) ==
    LET idx == {i \in 1..Len(headers) : KeyLower(headers[i][1]) = "www-authenticate"}
    IN  IF idx = {} THEN <<>> ELSE headers[CHOOSE i \in idx : TRUE][2]

\* val with every quoted stretch, quotes included, blanked to quote characters
Unquoted(val) ==
    [i \in 1..Len(val) |->
        IF val[i] = "\"" \/ Cardinality({j \in 1..(i-1) : val[j] = "\""}) % 2 = 1
        THEN "\"" ELSE val[i]]

\* The scheme the claim selects among the tokens offered
ByPrecedence(tokens) ==
    IF InList(s_digest, tokens) THEN DIGEST
    ELSE IF InList(s_ntlm, tokens) THEN NTLM
    ELSE IF InList(s_basic, tokens) THEN BASIC
    ELSE UnauthorizedError

SchemeWord(auth) ==
    CASE auth = DIGEST -> s_digest
      [] auth = NTLM   -> s_ntlm
      [] auth = BASIC  -> s_basic

\* C1: for every probe response, the result is "no authentication" when the
\* status is 200; otherwise it is the first of digest, NTLM, basic among the
\* tokens of the lower-cased WWW-Authenticate header, UnauthorizedError when
\* none of them is offered, and a scheme is selected only when its name
\* occurs outside the quoted values of the header.
C1_AuthByPrecedence ==
    a_result # "pending" =>
        LET val == Lower(WWWAuthenticate(a_headers))
        IN  IF a_status = 200
            THEN a_result = NOAUTH
            ELSE /\ a_result = ByPrecedence(Tokenize(val))
                 /\ a_result \in {DIGEST, NTLM, BASIC} =>
                        Occurs(SchemeWord(a_result), Unquoted(val))

(***************************************************************************)
(* Properties of get_service_authtype (SpecProbe, SpecProbe2)              *)
(***************************************************************************)
\* The attempt got a response with status 200 or 401
Got200or401(a) == a.err = None /\ a.resp.status_code \in {200, 401}

\* The attempt got a 200, or a 401 whose WWW-Authenticate header offers
\* digest, NTLM or basic
GotUsable(a) ==
    /\ a.err = None
    /\ \/ a.resp.status_code = 200
       \/ /\ a.resp.status_code = 401
          /\ ByPrecedence(Tokenize(Lower(WWWAuthenticate(a.resp.headers))))
                 # UnauthorizedError

\* The versions are POSTed in the order of supported_api_versions(): the
\* first POST is for version 1, a POST that failed with a connection error
\* is followed by a POST for the same version, one that got a response by a
\* POST for the next version.
PostsInVersionOrder(o) ==
    LET as == attempts[o]
    IN  /\ Len(as) > 0 => as[1].ver = 1
        /\ \A i \in 1..(Len(as) - 1) :
               as[i+1].ver = IF as[i].err = None THEN as[i].ver + 1 ELSE as[i].ver
        /\ \A i \in 1..Len(as) : as[i].ver \in 1..NumVersions

C3_TLSErrorNeverRetried ==
    \A o \in Ops : \A i \in 1..Len(attempts[o]) :
        attempts[o][i].err \in TLS_ERRORS =>
            /\ attempts[o][i].asked = NoTime
            /\ i = Len(attempts[o])
            /\ pc[o] # "except" => outcome[o] = TransportError

\* C4: a permitted retry advances back_off_until by the wait, and no POST
\* starts before back_off_until has elapsed, whichever operation issues it.
C4_NoPostBeforeBackOffElapsed ==
    \A o \in Ops : \A i \in 1..Len(attempts[o]) :
        LET a == attempts[o][i]
        IN  /\ a.permit => back_off_until >= a.t_asked + RETRY_WAIT
            /\ a.gate = NoTime \/ a.t >= a.gate

C6_ExhaustionIsTransportError ==
    \A o \in Ops :
        LET as == attempts[o]
        IN  ( /\ pc[o] = "done"
              /\ \A v \in 1..NumVersions :
                     \E i \in 1..Len(as) : as[i].ver = v /\ as[i].err = None
              /\ \A i \in 1..Len(as) : ~GotUsable(as[i]) )
            => /\ outcome[o] = TransportError
               /\ (\A i \in 1..Len(as) : as[i].err = None) => Len(as) = NumVersions

(***************************************************************************)
(* Properties of the batched service calls (SpecBatch)                     *)
(***************************************************************************)
\* Every element received so far, in the order of the chunks
Received == Stream(Len(responses))

\* The faults GetFolder yields as values
GetFolderFaults == {"ErrorFolderNotFound", "ErrorNoPublicFolderReplicaAvailable",
                    "ErrorInvalidOperation"}

\* C7: when the sequence returned by call() has ended, ceil(N/C) wire calls
\* were issued and it has yielded N results, the i-th made from the i-th
\* response element and, for GetFolder, parsed with the i-th folder given.
C7_OneResultPerItemInOrder ==
    b_pc = "done" =>
        /\ wire_calls = (Len(items) + chunk_size - 1) \div chunk_size
        /\ Len(results) = Len(items)
        /\ \A i \in 1..Len(results) :
               /\ results[i].elem = i
               /\ results[i].kind = "folder" => results[i].folder = items[i]

\* GetFolder.call over three folders in chunks of two has ended
C7_Witness ==
    /\ svc = "GetFolder"
    /\ b_pc = "done"
    /\ Len(items) = 3 /\ chunk_size = 2
    /\ wire_calls = 2
    /\ \A i \in 1..3 : results[i].kind = "folder"

\* C8: in GetFolder.call a recoverable fault of response element i is the
\* value at index i of the output and does not end the sequence; an element
\* that is a result gives, at its index, the folder parsed from it with the
\* input folder of that index.
C8_FaultOnlyAtItsIndex ==
    svc = "GetFolder" =>
        /\ Len(results) <= Len(Received)
        /\ \A i \in 1..Len(results) :
               LET elem == Received[i]
               IN  /\ elem.kind \in GetFolderFaults =>
                          results[i] = [kind |-> "error", folder |-> 0,
                                        elem |-> i, error |-> elem.kind]
                   /\ elem.kind = "ok" =>
                          results[i] = [kind |-> "folder", folder |-> items[i],
                                        elem |-> i, error |-> None]
        /\ b_error \notin GetFolderFaults

\* The first of three folders, in chunks of two, gave ErrorInvalidOperation;
\* the two after it, one in the same chunk and one in the next, were parsed.
C8_Witness ==
    /\ svc = "GetFolder"
    /\ b_pc = "done"
    /\ Len(items) = 3 /\ chunk_size = 2
    /\ results[1].kind = "error" /\ results[1].error = "ErrorInvalidOperation"
    /\ results[2].kind = "folder" /\ results[2].folder = items[2]
    /\ results[3].kind = "folder" /\ results[3].folder = items[3]

C10_RoundTrip ==
    /\ i_pc = "ValueError" => (i_id \in {None, ""} \/ i_changekey \in {None, ""})
    /\ (i_back.cls = i_cls /\ i_pc \notin {"new", "built", "xml", "ValueError"}) =>
           /\ i_pc = "parsed"
           /\ ItemIdEq(i_back, [id |-> i_id, changekey |-> i_changekey])

\* A RootItemId was written and read back
C10_Witness ==
    /\ i_cls = "RootItemId"
    /\ i_pc = "parsed"
    /\ i_back = [cls |-> "RootItemId", id |-> "AAMkAD", changekey |-> "a"]

(***************************************************************************)
(* Properties of Mailbox (SpecMailbox)                                     *)
(***************************************************************************)
\* The object has an item_id / has neither an email_address nor an item_id
HasItemId(m) == mbox[m].item_id # NoItem
Absent(m) == mbox[m].email_address \in {NoEmail, <<>>} /\ mbox[m].item_id = NoItem

\* C11: hash(m) of a Mailbox with an item_id returns a value; two Mailboxes
\* with equal item_id have equal hashes and compare equal, whatever their
\* other attributes; a Mailbox without item_id hashes as its lower-cased
\* email_address.
C11_HashOnItemId ==
    /\ \A m \in Mboxes :
           mb_hash[m] # NotRun =>
               IF HasItemId(m)
               THEN /\ mb_hash[m].raised = None
                    /\ \A n \in Mboxes :
                           (mb_hash[n] # NotRun /\ mbox[n].item_id = mbox[m].item_id)
                               => mb_hash[n] = mb_hash[m]
               ELSE mb_hash[m].raised = None =>
                        mb_hash[m].value = HashStr(Lower(mbox[m].email_address))
    /\ (mb_eq # NotRun /\ HasItemId("m1")
            /\ mbox["m1"].item_id = mbox["m2"].item_id)
           => mb_eq = Returned(TRUE)

\* C12: Mailbox(...) fails when email_address and item_id are both absent and
\* succeeds when one is set and the mailbox_type is valid; clean() and
\* to_xml() on an object that has lost both fail, to_xml() before the
\* element is created, and succeed on an object that has one.
C12_NeedsEmailOrItemId ==
    \A m \in Mboxes :
        LET valid == mbox[m].mailbox_type \in MAILBOX_TYPES \cup {None}
        IN  /\ mb_pc[m] \notin {"new", "assigned"} =>
                   /\ Absent(m) => mb_pc[m] \in {"AttributeError", "AssertionError"}
                   /\ (~Absent(m) /\ valid) => mb_pc[m] = "built"
                   /\ mb_pc[m] = "AttributeError" => Absent(m)
            /\ mb_xml[m].op # "not run" =>
                   /\ Absent(m) => (mb_xml[m].raised # None /\ ~mb_xml[m].elem)
                   /\ (~Absent(m) /\ valid) =>
                          /\ mb_xml[m].raised = None
                          /\ mb_xml[m].op = "to_xml" => mb_xml[m].elem

\* m1 was built with an item_id only and written; m2, built with an
\* email_address only, lost it and its to_xml() failed
C12_Witness ==
    /\ mb_pc["m1"] = "built" /\ HasItemId("m1")
    /\ mbox["m1"].email_address = NoEmail
    /\ mb_xml["m1"] = [op |-> "to_xml", raised |-> None, elem |-> TRUE]
    /\ mb_pc["m2"] = "assigned" /\ Absent("m2")
    /\ mb_xml["m2"] = [op |-> "to_xml", raised |-> "AttributeError", elem |-> FALSE]

(***************************************************************************)
(* Sessions of get_service_authtype (SpecProbe)                            *)
(***************************************************************************)
\* C13: an operation holds one session exactly while an attempt is under
\* way (from the with statement to the exit of the with block, the except
\* clause included), never more than one, and none between attempts or
\* once it has returned or raised.
C13_SessionReleasedOnEveryExit ==
    \A o \in Ops :
        /\ held[o] \in {0, 1}
        /\ held[o] = 1 <=> pc[o] \in {"post", "except"}
        /\ pc[o] = "done" => held[o] = 0

\* A POST failed and was retried, a later one failed and the policy refused:
\* the operation raised TransportError and holds no session
C13_Witness ==
    LET as == attempts["op1"]
    IN  /\ pc["op1"] = "done" /\ outcome["op1"] = TransportError
        /\ held["op1"] = 0
        /\ Len(as) >= 2
        /\ as[1].err # None /\ as[1].permit
        /\ as[Len(as)].err # None /\ ~as[Len(as)].permit

(***************************************************************************)
(* Properties of the field registry (SpecFields)                           *)
(***************************************************************************)
\* The tuple fs with field put at position idx
Inserted(fs, field, idx) ==
    [i \in 1..(Len(fs) + 1) |->
        IF i <= idx THEN fs[i] ELSE IF i = idx + 1 THEN field ELSE fs[i - 1]]

\* C14: get_field_by_fieldname(n) on a class gives the field named n of the
\* class's FIELDS as they are at the call, KeyError when none has that name;
\* add_field puts the field at position idx and remove_field takes it out,
\* the other fields keeping their order.
C14_FieldsMapNeverStale ==
    LET fs == GetFIELDS(f_last.cls)
    IN  /\ f_last.op = "get" =>
               IF \E i \in 1..Len(fs) : fs[i].name = f_last.field.name
               THEN /\ f_last.result.raised = None
                    /\ \E i \in 1..Len(fs) : fs[i] = f_last.result.value
                    /\ f_last.result.value.name = f_last.field.name
               ELSE f_last.result.raised = "KeyError"
        /\ f_last.op = "add" => fs = Inserted(f_last.before, f_last.field, f_last.idx)
        /\ f_last.op = "remove" =>
               /\ \A i \in 1..Len(fs) : fs[i] # f_last.field
               /\ \E keep \in SUBSET (1..Len(f_last.before)) :
                      /\ \A i \in 1..Len(f_last.before) :
                             i \in keep <=> f_last.before[i] # f_last.field
                      /\ Len(fs) = Cardinality(keep)
                      /\ \A i \in 1..Len(fs) :
                             fs[i] = f_last.before[CHOOSE k \in keep :
                                        Cardinality({j \in keep : j <= k}) = i]

(***************************************************************************)
(* Properties of interleaved GetFolder calls (SpecCalls)                   *)
(***************************************************************************)
\* C15: every result of the sequence a call returned is parsed from
\* response element i with folder i of the folders given to that call, and
\* the sequence ends after one result per folder given, however the calls
\* and the consumption of the two sequences interleave.
C15_ResultsUseOwnFolders ==
    \A c \in CallIds :
        /\ \A i \in 1..Len(c_call[c].results) :
               /\ i <= Len(c_call[c].given)
               /\ c_call[c].results[i].elem = i
               /\ c_call[c].results[i].folder = c_call[c].given[i]
        /\ c_call[c].pc = "done" => Len(c_call[c].results) = Len(c_call[c].given)

=============================================================================
